---- MODULE Spec2Model ----
(***************************************************************************)
(* A model of the instant-camera photo wall: the App container (wall       *)
(* collection and stacking counter), the Camera component (device access,  *)
(* capture, centre crop, delayed handoff) and the Polaroid component (the  *)
(* developing -> developed state of each card).                            *)
(*                                                                         *)
(* Conventions.                                                            *)
(*  - A React state update and the re-render it causes are one step: the   *)
(*    <video> element is mounted exactly while permissionError is false,   *)
(*    so videoRef.current is non-null exactly then.                        *)
(*  - Timers of equal delay fire in the order they were set.  The 200ms    *)
(*    flash timer of a capture fires before its 600ms handoff timer.       *)
(*  - JavaScript numbers of the crop are modelled as exact rationals       *)
(*    [n, d] in lowest terms; rounding of IEEE doubles is not modelled.    *)
(*  - crypto.randomUUID() returns an identifier never returned before: the *)
(*    model issues 1, 2, 3, ...                                            *)
(*  - A data URL stands for one still: capture number k produces URL k.    *)
(***************************************************************************)
EXTENDS Integers, Sequences, FiniteSets, TLC

VARIABLES
    photos,          \* App: useState<PhotoData[]>([])
    topZIndex,       \* App: useState(10)
    request,         \* Camera: getUserMedia promise: "pending" | "settled"
    isStreaming,     \* Camera: useState(false)
    permissionError, \* Camera: useState(false)
    video,           \* <<videoWidth, videoHeight>> of the <video> element
    isFlashing,      \* Camera: useState(false)
    flashTimers,     \* number of pending 200ms flash timers
    ejectingPhoto,   \* Camera: useState<string | null>(null)
    canvas,          \* the hidden canvas: size and the last drawImage source rectangle
    captures,        \* pending 600ms handoff timers, oldest first: [url, rect]
    developed,       \* Polaroid: useState(false), one per mounted card (by id)
    devTimers,       \* pending 100ms development timers, oldest first (card ids)
    nextId,          \* history: number of identifiers issued by randomUUID
    started,         \* history: number of captures started
    handed,          \* history: the stills handed to the wall, in handoff order
    focusCalls,      \* history: number of handleBringToFront calls
    hiLayer,         \* history: highest stacking layer any card was rendered with (0: none)
    last             \* history: the last handler that ran, and its argument

vars == <<photos, topZIndex, request, isStreaming, permissionError, video,
          isFlashing, flashTimers, ejectingPhoto, canvas, captures,
          developed, devTimers, nextId, started, handed, focusCalls,
          hiLayer, last>>

appVars == <<photos, topZIndex>>
cameraVars == <<request, isStreaming, permissionError, video, isFlashing,
                flashTimers, ejectingPhoto, canvas, captures, started>>
cardVars == <<developed, devTimers>>
histVars == <<nextId, handed, focusCalls, hiLayer>>

(***************************************************************************)
(* Bounds of the model.                                                    *)
(***************************************************************************)
MaxCaptures == 3
MaxLiveCaptures == 2
MaxFocus == 2
MaxDim == 32

(***************************************************************************)
(* Program constants.                                                      *)
(***************************************************************************)
InitialTopZ == 10
BaseLayer == 10
TargetWidth == 460
TargetHeight == 620
SpawnHalfCard == 100
SpawnLift == 300
BodyLeft == 40
BodyWidth == 340
BodyHeight == 300
BodyBottom == 40

NoPhoto == 0
CardIds == 1 .. MaxCaptures

(***************************************************************************)
(* Exact rationals for the crop arithmetic.                                *)
(***************************************************************************)
Abs(x) == IF x < 0 THEN -x ELSE x

RECURSIVE Gcd(_, _)
Gcd(a, b) == IF b = 0 THEN a ELSE Gcd(b, a % b)

Rat(n, d) ==
    LET g == Gcd(Abs(n), Abs(d))
        s == IF d < 0 THEN -1 ELSE 1
    IN  [n |-> (s * n) \div g, d |-> (s * d) \div g]

RInt(k) == [n |-> k, d |-> 1]
RMul(a, b) == Rat(a.n * b.n, a.d * b.d)
RDiv(a, b) == Rat(a.n * b.d, a.d * b.n)
RSub(a, b) == Rat(a.n * b.d - b.n * a.d, a.d * b.d)
RLess(a, b) == a.n * b.d < b.n * a.d

(***************************************************************************)
(* Camera: the centre crop of handleCapture.                               *)
(***************************************************************************)
\* const targetRatio = width / height
TargetRatio == RDiv(RInt(TargetWidth), RInt(TargetHeight))

\* videoRatio > targetRatio, with videoRatio = videoWidth / videoHeight:
\* 0/0 is NaN (every comparison false), w/0 with w > 0 is Infinity.
WiderThanTarget(vw, vh) ==
    IF vh = 0 THEN vw > 0 ELSE RLess(TargetRatio, RDiv(RInt(vw), RInt(vh)))

\* A faulty variant of CenterCrop: the two branches crop the wrong dimension.
CenterCropSwapped(vw, vh) ==
    IF WiderThanTarget(vw, vh)
    THEN LET sw == RInt(vw)
             sh == RDiv(sw, TargetRatio)
         IN  [sx |-> RInt(0), sy |-> RDiv(RSub(RInt(vh), sh), RInt(2)),
              sw |-> sw, sh |-> sh]
    ELSE LET sh == RInt(vh)
             sw == RMul(sh, TargetRatio)
         IN  [sx |-> RDiv(RSub(RInt(vw), sw), RInt(2)), sy |-> RInt(0),
              sw |-> sw, sh |-> sh]

\* The source rectangle (sourceX, sourceY, sourceWidth, sourceHeight).
CenterCrop(vw, vh) ==
    IF WiderThanTarget(vw, vh)
    THEN LET sh == RInt(vh)
             sw == RMul(sh, TargetRatio)
         IN  [sx |-> RDiv(RSub(RInt(vw), sw), RInt(2)), sy |-> RInt(0),
              sw |-> sw, sh |-> sh]
    ELSE LET sw == RInt(vw)
             sh == RDiv(sw, TargetRatio)
         IN  [sx |-> RInt(0), sy |-> RDiv(RSub(RInt(vh), sh), RInt(2)),
              sw |-> sw, sh |-> sh]

\* canvas.width = width; canvas.height = height; translate/scale(-1, 1); drawImage.
DrawnCanvas(vw, vh) ==
    [width |-> TargetWidth, height |-> TargetHeight, mirrored |-> TRUE,
     src |-> CenterCrop(vw, vh)]

\* The canvas before the first capture: nothing drawn.
BlankCanvas ==
    [width |-> 0, height |-> 0, mirrored |-> FALSE,
     src |-> [sx |-> RInt(0), sy |-> RInt(0), sw |-> RInt(0), sh |-> RInt(0)]]

\* Frame sizes a device reports in the main specification.
StreamDims == {<<640, 480>>, <<460, 620>>}

\* Frame sizes of the crop specification.
CropDims == ((1 .. MaxDim) \X (1 .. MaxDim))
            \cup {<<640, 480>>, <<460, 620>>, <<720, 720>>, <<540, 720>>,
                  <<1280, 720>>, <<720, 1280>>, <<1920, 1080>>}

\* cameraBodyRef.current.getBoundingClientRect(): the body is fixed at
\* bottom-10 left-10, 340 x 300, so its top depends on the viewport height.
ViewportHeights == {800}
CameraRect(viewportHeight) ==
    [left |-> BodyLeft, top |-> viewportHeight - BodyBottom - BodyHeight,
     width |-> BodyWidth, height |-> BodyHeight]

\* videoRef.current is non-null: the <video> is rendered unless permissionError.
VideoMounted == ~permissionError

\* The guard of handleCapture; canvasRef and cameraBodyRef are always mounted.
RefsPresent == VideoMounted

(***************************************************************************)
(* App: the wall collection and the stacking counter.                      *)
(***************************************************************************)
\* (Math.random() * 6) - 3: a value of [-3, 3).
Rotations == {2}

\* Date.now(): a logical clock that every capture and every handoff advances.
Now == started + nextId

\* The PhotoData record of handleTakePhoto.
NewPhoto(id, dataUrl, cameraRect, rot) ==
    [id |-> id, url |-> dataUrl, timestamp |-> Now,
     x |-> cameraRect.left + (cameraRect.width \div 2) - SpawnHalfCard,
     y |-> cameraRect.top - SpawnLift,
     rotation |-> rot, isDeveloping |-> TRUE]

\* A faulty variant of AddPhoto: the new card replaces the collection.
AddPhotoOnly(prev, newPhoto) == <<newPhoto>>

\* A faulty variant of AddPhoto: the new card is put in front of the list.
AddPhotoFirst(prev, newPhoto) == <<newPhoto>> \o prev

\* setPhotos(prev => [...prev, newPhoto])
AddPhoto(prev, newPhoto) == Append(prev, newPhoto)

\* A faulty variant of RemovePhoto: the card at the head is dropped with the one named.
RemovePhotoAndHead(prev, id) ==
    IF prev = <<>> THEN prev
    ELSE SelectSeq(Tail(prev), LAMBDA p : p.id # id)

\* setPhotos(prev => prev.filter(p => p.id !== id))
RemovePhoto(prev, id) == SelectSeq(prev, LAMBDA p : p.id # id)

\* A faulty variant of NextTopZ: the counter is reset instead of raised.
NextTopZReset(prev) == InitialTopZ

\* setTopZIndex(prev => prev + 1)
NextTopZ(prev) == prev + 1

\* A faulty variant of RenderedLayer: every card is rendered with the counter's value.
RenderedLayerCounter(index) == topZIndex

\* zIndex={index + 10}, index the card's 0-based position in photos.
RenderedLayer(index) == index + BaseLayer

LiveIds == {photos[i].id : i \in 1 .. Len(photos)}
IndexOf(id) == CHOOSE i \in 1 .. Len(photos) : photos[i].id = id
\* The stacking layer the card with this id is rendered with.
LayerOf(id) == RenderedLayer(IndexOf(id) - 1)
Layers == {RenderedLayer(i - 1) : i \in 1 .. Len(photos)}
MaxOf(S) == CHOOSE m \in S : \A k \in S : k <= m

(***************************************************************************)
(* Polaroid: the developed state of a mounted card.                        *)
(***************************************************************************)
\* useState(false) at mount, then the effect: a fresh card sets a 100ms timer,
\* any other card is developed at once.
MountDeveloped(photo) == ~photo.isDeveloping
MountTimers(timers, photo) ==
    IF photo.isDeveloping THEN Append(timers, photo.id) ELSE timers

\* A faulty variant of UnmountTimers: the effect has no cleanup.
UnmountTimersKept(timers, gone) == timers

\* return () => clearTimeout(timer), run for every card that unmounts.
UnmountTimers(timers, gone) == SelectSeq(timers, LAMBDA t : t \notin gone)

Restrict(f, S) == [k \in S |-> f[k]]

(***************************************************************************)
(* Initial state: App and Camera mounted, getUserMedia requested.          *)
(***************************************************************************)
Init ==
    /\ photos = <<>>
    /\ topZIndex = InitialTopZ
    /\ request = "pending"
    /\ isStreaming = FALSE
    /\ permissionError = FALSE
    /\ video = <<0, 0>>
    /\ isFlashing = FALSE
    /\ flashTimers = 0
    /\ ejectingPhoto = NoPhoto
    /\ canvas = BlankCanvas
    /\ captures = <<>>
    /\ developed = << >>
    /\ devTimers = <<>>
    /\ nextId = 0
    /\ started = 0
    /\ handed = <<>>
    /\ focusCalls = 0
    /\ hiLayer = 0
    /\ last = [op |-> "mount", id |-> 0, live |-> FALSE]

(***************************************************************************)
(* Camera: setupCamera.                                                    *)
(***************************************************************************)
\* getUserMedia resolves: srcObject is set and setIsStreaming(true).
StreamGranted ==
    /\ request = "pending"
    /\ request' = "settled"
    /\ isStreaming' = (IF VideoMounted THEN TRUE ELSE isStreaming)
    /\ last' = [op |-> "granted", id |-> 0, live |-> FALSE]
    /\ UNCHANGED <<permissionError, video, isFlashing, flashTimers,
                   ejectingPhoto, canvas, captures, started>>
    /\ UNCHANGED <<appVars, cardVars, histVars>>

\* The stream's first frame arrives: videoWidth and videoHeight are known.
VideoMetadata ==
    /\ isStreaming
    /\ video = <<0, 0>>
    /\ \E dims \in StreamDims : video' = dims
    /\ last' = [op |-> "metadata", id |-> 0, live |-> FALSE]
    /\ UNCHANGED <<request, isStreaming, permissionError, isFlashing,
                   flashTimers, ejectingPhoto, canvas, captures, started>>
    /\ UNCHANGED <<appVars, cardVars, histVars>>

\* getUserMedia rejects: console.error and setPermissionError(true).
StreamDenied ==
    /\ request = "pending"
    /\ request' = "settled"
    /\ permissionError' = TRUE
    /\ last' = [op |-> "denied", id |-> 0, live |-> FALSE]
    /\ UNCHANGED <<isStreaming, video, isFlashing, flashTimers,
                   ejectingPhoto, canvas, captures, started>>
    /\ UNCHANGED <<appVars, cardVars, histVars>>

(***************************************************************************)
(* Camera: handleCapture, the click handler of the shutter button.         *)
(***************************************************************************)
\* if (!videoRef.current || ...) return;
ShutterIgnored ==
    /\ ~RefsPresent
    /\ last' = [op |-> "ignored", id |-> 0, live |-> FALSE]
    /\ UNCHANGED <<appVars, cameraVars, cardVars, histVars>>

\* Flash, crop and draw, encode, start the ejection, set the handoff timer.
Capture ==
    /\ RefsPresent
    /\ started < MaxCaptures
    /\ \E vp \in ViewportHeights :
         LET dataUrl == started + 1
         IN  /\ isFlashing' = TRUE
             /\ flashTimers' = flashTimers + 1
             /\ canvas' = DrawnCanvas(video[1], video[2])
             /\ ejectingPhoto' = dataUrl
             /\ captures' = Append(captures, [url |-> dataUrl, rect |-> CameraRect(vp)])
             /\ started' = started + 1
             /\ last' = [op |-> "capture", id |-> dataUrl, live |-> FALSE]
    /\ UNCHANGED <<request, isStreaming, permissionError, video>>
    /\ UNCHANGED <<appVars, cardVars, histVars>>

\* setTimeout(() => setIsFlashing(false), 200)
FlashOff ==
    /\ flashTimers > 0
    /\ flashTimers' = flashTimers - 1
    /\ isFlashing' = FALSE
    /\ last' = [op |-> "flashoff", id |-> 0, live |-> FALSE]
    /\ UNCHANGED <<request, isStreaming, permissionError, video,
                   ejectingPhoto, canvas, captures, started>>
    /\ UNCHANGED <<appVars, cardVars, histVars>>

\* setTimeout(() => { onTakePhoto(dataUrl, rect); setEjectingPhoto(null) }, 600):
\* handleTakePhoto appends the card, the new Polaroid mounts and runs its effect.
Handoff ==
    /\ captures # <<>>
    /\ flashTimers < Len(captures)
    /\ \E rot \in Rotations :
         LET c == Head(captures)
             id == nextId + 1
             newPhoto == NewPhoto(id, c.url, c.rect, rot)
         IN  /\ photos' = AddPhoto(photos, newPhoto)
             /\ developed' = [k \in DOMAIN developed \cup {id} |->
                                IF k = id THEN MountDeveloped(newPhoto) ELSE developed[k]]
             /\ devTimers' = MountTimers(devTimers, newPhoto)
             /\ nextId' = id
             /\ last' = [op |-> "handoff", id |-> id, live |-> FALSE]
    /\ hiLayer' = (LET m == MaxOf({RenderedLayer(i - 1) : i \in 1 .. Len(photos')})
                   IN  IF m > hiLayer THEN m ELSE hiLayer)
    /\ captures' = Tail(captures)
    /\ ejectingPhoto' = NoPhoto
    /\ handed' = Append(handed, Head(captures).url)
    /\ UNCHANGED <<topZIndex, request, isStreaming, permissionError, video,
                   isFlashing, flashTimers, canvas, started, focusCalls>>

(***************************************************************************)
(* Polaroid: the development timer.                                        *)
(***************************************************************************)
\* setTimeout(() => setDeveloped(true), 100) of the card with this id.
DevelopedAfterTimer(id) == [developed EXCEPT ![id] = TRUE]

DevelopFire ==
    /\ devTimers # <<>>
    /\ LET id == Head(devTimers)
       IN  /\ developed' = (IF id \in DOMAIN developed
                            THEN DevelopedAfterTimer(id) ELSE developed)
           /\ last' = [op |-> "develop", id |-> id, live |-> id \in LiveIds]
    /\ devTimers' = Tail(devTimers)
    /\ UNCHANGED <<appVars, cameraVars, histVars>>

(***************************************************************************)
(* App: the handlers a card calls.                                         *)
(***************************************************************************)
\* handleDelete(id); the Polaroid of a removed card unmounts.
Delete(id) ==
    /\ photos' = RemovePhoto(photos, id)
    /\ LET left == {photos'[i].id : i \in 1 .. Len(photos')}
       IN  /\ developed' = Restrict(developed, left \cap DOMAIN developed)
           /\ devTimers' = UnmountTimers(devTimers, LiveIds \ left)
    /\ last' = [op |-> "delete", id |-> id, live |-> id \in LiveIds]
    /\ UNCHANGED <<topZIndex, cameraVars, histVars>>

\* handleDownload(id, url): a link is created, clicked and removed.
Download(id) ==
    /\ id \in LiveIds
    /\ last' = [op |-> "download", id |-> 0, live |-> TRUE]
    /\ UNCHANGED <<appVars, cameraVars, cardVars, histVars>>

\* onPointerDown of a card: handleBringToFront(photo.id).
BringToFront(id) ==
    /\ id \in LiveIds
    /\ topZIndex < InitialTopZ + MaxFocus
    /\ topZIndex' = NextTopZ(topZIndex)
    /\ last' = [op |-> "focus", id |-> id, live |-> id \in LiveIds]
    /\ focusCalls' = focusCalls + 1
    /\ UNCHANGED <<photos, cameraVars, cardVars, nextId, handed, hiLayer>>

Next ==
    \/ StreamGranted
    \/ VideoMetadata
    \/ StreamDenied
    \/ ShutterIgnored
    \/ Capture
    \/ FlashOff
    \/ Handoff
    \/ DevelopFire
    \/ \E id \in CardIds : Delete(id)
    \/ \E id \in CardIds : Download(id)
    \/ \E id \in CardIds : BringToFront(id)

Spec == Init /\ [][Next]_vars

\* The same program with fewer captures, for the properties that need fairness.
LiveCapture == Capture /\ started < MaxLiveCaptures

LiveNext ==
    \/ StreamGranted
    \/ VideoMetadata
    \/ StreamDenied
    \/ ShutterIgnored
    \/ LiveCapture
    \/ FlashOff
    \/ Handoff
    \/ DevelopFire
    \/ \E id \in CardIds : Delete(id)
    \/ \E id \in CardIds : Download(id)
    \/ \E id \in CardIds : BringToFront(id)

\* Timers fire: the event loop runs every callback whose delay has elapsed.
Fairness ==
    /\ WF_vars(FlashOff)
    /\ WF_vars(Handoff)
    /\ WF_vars(DevelopFire)

LiveSpec == Init /\ [][LiveNext]_vars /\ Fairness

(***************************************************************************)
(* The crop specification: a streaming camera with any frame size, and     *)
(* captures.                                                               *)
(***************************************************************************)
CropInit ==
    /\ photos = <<>>
    /\ topZIndex = InitialTopZ
    /\ request = "settled"
    /\ isStreaming = TRUE
    /\ permissionError = FALSE
    /\ video \in CropDims
    /\ isFlashing = FALSE
    /\ flashTimers = 0
    /\ ejectingPhoto = NoPhoto
    /\ canvas = BlankCanvas
    /\ captures = <<>>
    /\ developed = << >>
    /\ devTimers = <<>>
    /\ nextId = 0
    /\ started = 0
    /\ handed = <<>>
    /\ focusCalls = 0
    /\ hiLayer = 0
    /\ last = [op |-> "metadata", id |-> 0, live |-> FALSE]

CropNext == Capture

CropSpec == CropInit /\ [][CropNext]_vars

(***************************************************************************)
(* Properties.                                                             *)
(***************************************************************************)
Range(q) == {q[i] : i \in 1 .. Len(q)}
InFlight == {captures[i].url : i \in 1 .. Len(captures)}
Issued == 1 .. nextId
RAdd(a, b) == Rat(a.n * b.d + b.n * a.d, a.d * b.d)
RLeq(a, b) == a.n * b.d <= b.n * a.d

\* C1: after a pointer-down on a card of a wall with two or more cards, that
\* card's rendered stacking layer is the maximum over the live cards and
\* exceeds every layer any card was rendered with before.
C1_FocusedCardOnTop ==
    (last.op = "focus" /\ last.id \in LiveIds /\ Len(photos) >= 2)
        => /\ LayerOf(last.id) = MaxOf(Layers)
           /\ \A id \in LiveIds \ {last.id} : LayerOf(id) < LayerOf(last.id)
           /\ LayerOf(last.id) > hiLayer

\* C2: the stacking counter never decreases, every handleBringToFront call
\* raises it by exactly one, and after N calls it is 10 + N.
C2_CounterIncreases ==
    /\ [](topZIndex = 10 + focusCalls)
    /\ [][/\ topZIndex' >= topZIndex
          /\ focusCalls' \in {focusCalls, focusCalls + 1}
          /\ (focusCalls' = focusCalls + 1) => (topZIndex' = topZIndex + 1)]_vars

C2_Witness ==
    /\ last.op = "focus"
    /\ focusCalls = 2
    /\ topZIndex = 12
    /\ nextId >= 2

\* The cards of q whose id is not the given one, in the order of q.
RECURSIVE Others(_, _)
Others(q, id) ==
    IF q = <<>> THEN <<>>
    ELSE IF Head(q).id = id THEN Others(Tail(q), id)
    ELSE <<Head(q)>> \o Others(Tail(q), id)

\* C3: onDelete(id) removes the cards with that id and keeps every other card
\* in the same relative order; with no such card nothing changes, and a second
\* onDelete(id) changes nothing.
C3_DeleteIsFilter ==
    [][\A id \in CardIds :
         Delete(id) =>
           /\ \A i \in 1 .. Len(photos') : photos'[i].id # id
           /\ photos' = Others(photos, id)
           /\ (id \notin LiveIds) =>
                UNCHANGED <<photos, topZIndex, cameraVars, cardVars, histVars>>
           /\ RemovePhoto(photos', id) = photos']_vars

C3_Witness ==
    /\ last.op = "delete"
    /\ ~last.live
    /\ last.id \in Issued
    /\ Len(photos) >= 2

\* C4: a capture in flight has no card yet; its handoff appends exactly one new
\* card with isDeveloping = TRUE at the end of the collection; no still is
\* handed off twice, k started captures give k handoffs, and every capture in
\* flight is eventually handed off.
C4_EveryCaptureOneCard ==
    /\ [](/\ \A i \in 1 .. Len(photos) : photos[i].url \notin InFlight
          /\ \A i, j \in 1 .. Len(handed) : (handed[i] = handed[j]) => (i = j)
          /\ Range(handed) \cap InFlight = {}
          /\ Range(handed) \cup InFlight = 1 .. started
          /\ Len(handed) + Len(captures) = started)
    /\ [][\A k \in CardIds :
            (k \in InFlight /\ k \notin InFlight') =>
               /\ Len(photos') = Len(photos) + 1
               /\ SubSeq(photos', 1, Len(photos)) = photos
               /\ photos'[Len(photos')].url = k
               /\ photos'[Len(photos')].isDeveloping
               /\ photos'[Len(photos')].id \notin LiveIds
               /\ handed' = Append(handed, k)]_vars
    /\ [][\A i \in 1 .. Len(photos') :
            (photos'[i] \notin Range(photos)) =>
               (photos'[i].url \in InFlight /\ photos'[i].url \notin InFlight')]_vars
    /\ \A k \in CardIds : (k \in InFlight) ~> (k \in Range(handed))

C4_Witness ==
    /\ last.op = "handoff"
    /\ handed = <<1>>
    /\ InFlight = {2}
    /\ Len(photos) = 1
    /\ photos[1].url = 1
    /\ photos[1].isDeveloping

\* C5: once device access has failed, the failure stays, streaming stays off,
\* no capture starts and no card is added to the wall.
C5_NothingAfterFailure ==
    [][permissionError =>
         /\ permissionError'
         /\ ~isStreaming'
         /\ started' = started
         /\ captures' = captures
         /\ \A i \in 1 .. Len(photos') : photos'[i] \in Range(photos)]_vars

\* C6: a fresh card starts developing; a developed card stays developed while
\* it is on the wall; a development timer changes one card only; a removed card
\* has no timer and never returns; a card that stays is eventually developed.
C6_DevelopsOnce ==
    /\ [](/\ DOMAIN developed = LiveIds
          /\ Range(devTimers) \subseteq LiveIds
          /\ \A id \in LiveIds : developed[id] \/ id \in Range(devTimers)
          /\ \A i, j \in 1 .. Len(devTimers) : (devTimers[i] = devTimers[j]) => (i = j))
    /\ [][\A id \in CardIds :
            /\ (id \in LiveIds' \ LiveIds) => ~developed'[id]
            /\ (id \in LiveIds /\ id \in LiveIds' /\ developed[id]) => developed'[id]
            /\ (id \in Issued /\ id \notin LiveIds) => (id \notin LiveIds')
            /\ (id \in LiveIds /\ id \in LiveIds' /\ developed'[id] # developed[id]) =>
                  /\ devTimers # <<>> /\ Head(devTimers) = id
                  /\ UNCHANGED photos
                  /\ \A k \in LiveIds \ {id} : developed'[k] = developed[k]]_vars
    /\ \A id \in CardIds :
         (id \in LiveIds /\ ~developed[id]) ~> (id \notin LiveIds \/ developed[id])

C6_Witness ==
    /\ last.op = "develop"
    /\ Len(photos) = 2
    /\ last.id = photos[1].id
    /\ developed[photos[1].id]
    /\ ~developed[photos[2].id]

\* C7: for a frame of width and height >= 1 the source rectangle of the crop
\* has the ratio 460:620, lies inside the frame and is centred; a frame wider
\* than 460:620 keeps its full height, any other its full width; the canvas is
\* 460 x 620.
C7_CenterCrop ==
    (canvas # BlankCanvas /\ video[1] >= 1 /\ video[2] >= 1) =>
        LET c == canvas.src
            vw == RInt(video[1])
            vh == RInt(video[2])
            zero == RInt(0)
        IN  /\ canvas.width = 460 /\ canvas.height = 620
            /\ c.sw.n * c.sh.d * 620 = c.sh.n * c.sw.d * 460
            /\ RLess(zero, c.sw) /\ RLess(zero, c.sh)
            /\ RLeq(zero, c.sx) /\ RLeq(zero, c.sy)
            /\ RLeq(RAdd(c.sx, c.sw), vw)
            /\ RLeq(RAdd(c.sy, c.sh), vh)
            /\ RSub(RSub(vw, c.sw), c.sx) = c.sx
            /\ RSub(RSub(vh, c.sh), c.sy) = c.sy
            /\ IF video[1] * 620 > video[2] * 460
               THEN c.sh = vh /\ c.sy = zero
               ELSE c.sw = vw /\ c.sx = zero

C7_Witness ==
    /\ video = <<640, 480>>
    /\ canvas.width = 460
    /\ canvas.src.sh = RInt(480)
    /\ canvas.src.sw = [n |-> 11040, d |-> 31]
    /\ canvas.src.sx = [n |-> 4400, d |-> 31]

\* C8: at most one capture is in flight at any time.
C8_OneCaptureInFlight == Len(captures) <= 1

\* C9: a card on the wall stays on it, with every field unchanged, through
\* every step but onDelete of its own id; onDownload changes neither the
\* collection nor the counter; the ids of the live cards are pairwise distinct.
C9_CardsArePermanent ==
    /\ [](\A i, j \in 1 .. Len(photos) : (photos[i].id = photos[j].id) => (i = j))
    /\ [][/\ \A i \in 1 .. Len(photos) :
               \/ photos[i] \in Range(photos')
               \/ last'.op = "delete" /\ last'.id = photos[i].id
          /\ (last'.op = "download" /\ last' # last) =>
                UNCHANGED <<photos, topZIndex>>]_vars

C9_Witness ==
    /\ last.op = "delete"
    /\ last.live
    /\ nextId = 3
    /\ Len(photos) = 2
    /\ topZIndex > 10

\* C10: a card's rendered layer is 10 plus its 0-based position; live cards
\* have distinct layers, increasing in append order; a layer changes only by
\* dropping by one when an earlier card is deleted; it does not depend on the
\* stacking counter.
C10_LayerIsPosition ==
    /\ [](/\ \A i \in 1 .. Len(photos) : LayerOf(photos[i].id) = 10 + (i - 1)
          /\ \A i, j \in 1 .. Len(photos) :
               (i < j) => /\ photos[i].id < photos[j].id
                          /\ LayerOf(photos[i].id) < LayerOf(photos[j].id))
    /\ [][\A id \in LiveIds \cap LiveIds' :
            /\ LayerOf(id)' \in {LayerOf(id), LayerOf(id) - 1}
            /\ (LayerOf(id)' # LayerOf(id)) =>
                  /\ last'.op = "delete" /\ last'.live
                  /\ last'.id < id
                  /\ UNCHANGED topZIndex
            /\ (topZIndex' # topZIndex) => (LayerOf(id)' = LayerOf(id))]_vars

C10_Witness ==
    /\ last.op = "delete"
    /\ last.live
    /\ Len(photos) = 2
    /\ photos[1].id = 2
    /\ LayerOf(2) = 10
    /\ LayerOf(3) = 11
    /\ topZIndex = 12
====
